---- MODULE Spec2Model ----
(***************************************************************************)
(* PyTubeGrabber: the download core (pytubegrabber/core/downloader.py and  *)
(* pytubegrabber/utils/config.py).                                         *)
(*                                                                         *)
(* and the window that drives it (pytubegrabber/gui/main_window.py).       *)
(*                                                                         *)
(* Five state machines share the variables of this module:                 *)
(*   SpecFormats   VideoDownloader.get_available_formats                   *)
(*   SpecTitle     the title sanitisation of VideoDownloader.download_video*)
(*   SpecDownload  VideoDownloader.download_video / download_multiple      *)
(*   SpecProgress  download_video with the adapter's progress events       *)
(*   SpecGui       MainWindow, its DownloadThreads and VideoInfoWorkers    *)
(* Python strings are sequences of one-character strings.                  *)
(***************************************************************************)
EXTENDS Integers, Sequences, FiniteSets, TLC

VARIABLES
    \* ---- get_available_formats ----
    fpc,        \* "listing": the extractor assembles info['formats']; "returned"
    raw,        \* the extractor's format listing, in listing order
    fprobe,     \* outcome of the first get_video_info of the call
    fresult,    \* what get_available_formats returned or raised
    fprobe2,    \* outcome of the second get_video_info ("none": not made)
    \* ---- title sanitisation ----
    tpc,        \* "input" | "done"
    title,      \* the probed video title
    safe,       \* safe_title computed from it
    \* ---- download_video / download_multiple ----
    dpc,        \* position of the running call
    call,       \* the arguments of the caller's call
    idx,        \* position of the for loop of download_multiple in urls
    cur,        \* the locals of the running download_video
    dir,        \* the names os.listdir(output_path) would return
    opts,       \* the ydl_opts of the latest adapter invocation
    adapter_ret,       \* what ydl.download did: completion code or exception,
                       \* and the files it wrote
    dv_result,         \* what the latest download_video returned or raised
    downloaded_files,  \* download_multiple's list of the same name
    errors,            \* download_multiple's list of the same name
    batch_result,      \* what download_multiple returned or raised
    log,        \* history: the begin and the end of every download_video call
    invoked,    \* history: the positions in urls ydl.download was invoked for
    \* ---- progress reporting ----
    sink,       \* whether self.progress_callback is set
    emitted,    \* the events the adapter gave the hook during this download
    delivered,  \* the events progress_callback received during this download
    hookst,     \* whether the hook raised, here and in the twin run that
                \* differs in sink alone, and the twin's outcome
    \* ---- MainWindow ----
    url_edit,         \* the text of the URL field
    enabled,          \* isEnabled() of the fetch, download and cancel
                      \* buttons and of the format combo box
    format_combo,     \* count() and currentIndex() of the format combo box
    current_formats,  \* MainWindow.current_formats
    formats_of,       \* history: the URL whose probe gave current_formats
    is_downloading,   \* MainWindow.is_downloading
    download_thread,  \* MainWindow.download_thread: a position in dthreads,
                      \* 0 for None
    progress_bar,     \* progress_bar.value()
    dthreads,         \* the DownloadThreads that run or have signals queued
    iworkers,         \* the VideoInfoWorkers whose signal the window has not
                      \* processed yet, in starting order
    events            \* the signals queued for the window's thread

fvars == <<fpc, raw, fprobe, fresult, fprobe2>>
tvars == <<tpc, title, safe>>
dvars == <<dpc, call, idx, cur, dir, opts, adapter_ret, dv_result,
           downloaded_files, errors, batch_result, log, invoked,
           sink, emitted, delivered, hookst>>
pvars == <<sink, emitted, delivered, hookst>>
gvars == <<url_edit, enabled, format_combo, current_formats, formats_of,
           is_downloading, download_thread, progress_bar,
           dthreads, iworkers, events>>
vars == <<fpc, raw, fprobe, fresult, fprobe2, tpc, title, safe,
          dpc, call, idx, cur, dir, opts, adapter_ret, dv_result,
          downloaded_files, errors, batch_result, log, invoked,
          sink, emitted, delivered, hookst,
          url_edit, enabled, format_combo, current_formats, formats_of,
          is_downloading, download_thread, progress_bar,
          dthreads, iworkers, events>>

(***************************************************************************)
(* Bounds                                                                  *)
(***************************************************************************)
MaxRaw == 7        \* longest listing drawn from WideCatalogue
MaxMixed == 4      \* longest listing drawn from the whole Catalogue

(***************************************************************************)
(* Sequence helpers                                                        *)
(***************************************************************************)
Range(s) == {s[i] : i \in 1..Len(s)}

Injective(s) == \A i, j \in 1..Len(s) : s[i] = s[j] => i = j

\* Python's None for an integer field
None == -1

(***************************************************************************)
(* The extractor's raw formats: the fields get_available_formats reads     *)
(***************************************************************************)
RawFormat(id, e, h, a) == [format_id |-> id, ext |-> e, height |-> h, acodec |-> a]

\* mp4 entries with audio, six distinct heights and one height listed twice,
\* and a webm entry above them all
WideCatalogue ==
    {RawFormat("f1", "mp4", 1, "mp4a"), RawFormat("f2", "mp4", 2, "mp4a"),
     RawFormat("f3", "mp4", 3, "mp4a"), RawFormat("f4", "mp4", 4, "mp4a"),
     RawFormat("f5", "mp4", 5, "mp4a"), RawFormat("f6", "mp4", 6, "mp4a"),
     RawFormat("f4b", "mp4", 4, "mp4a"), RawFormat("w7", "webm", 7, "opus")}

\* the entries the filter and the walk treat specially
Catalogue ==
    WideCatalogue \cup
    {RawFormat("z0", "mp4", 0, "mp4a"),       \* height 0
     RawFormat("n", "mp4", None, "mp4a"),     \* audio-only: no height
     RawFormat("v8", "mp4", 8, "none"),       \* video-only stream
     RawFormat("x9", "mp4", 9, "absent")}     \* no 'acodec' key at all

\* listings the extractor may produce: format ids are unique within a listing
InScope(l) ==
    /\ Injective(l)
    /\ \/ Len(l) <= MaxMixed /\ Range(l) \subseteq Catalogue
       \/ Len(l) <= MaxRaw /\ Range(l) \subseteq WideCatalogue

(***************************************************************************)
(* config.get_fallback_formats                                             *)
(***************************************************************************)
Raised(e) == [raised |-> TRUE, exc |-> e, formats |-> <<>>, info |-> "none"]
Returned(f, i) == [raised |-> FALSE, exc |-> "", formats |-> f, info |-> i]

\* line 120 reads the global MP4_QUALITY_PRESETS, which no statement of
\* config.py (nor any import of it) binds: the call raises NameError
get_fallback_formats == Raised("NameError")

(***************************************************************************)
(* VideoDownloader.get_available_formats                                   *)
(***************************************************************************)
\* line 97-98: the filter
PassesFilterMutant(f) == f.ext = "mp4" /\ f.height # None
PassesFilter(f) == f.ext = "mp4" /\ f.height # None /\ f.acodec # "none"

video_formats(listing) == SelectSeq(listing, PassesFilter)

\* line 105: key (height or 0)
SortKey(f) == IF f.height = None \/ f.height = 0 THEN 0 ELSE f.height

\* list.sort(key, reverse=True) is stable: insertion keeps listing order
\* among entries of equal key
RECURSIVE InsertDescMutant(_, _)
InsertDescMutant(sorted, f) ==
    IF sorted = <<>> THEN <<f>>
    ELSE IF SortKey(Head(sorted)) > SortKey(f)
         THEN <<Head(sorted)>> \o InsertDescMutant(Tail(sorted), f)
         ELSE <<f>> \o sorted

RECURSIVE InsertDesc(_, _)
InsertDesc(sorted, f) ==
    IF sorted = <<>> THEN <<f>>
    ELSE IF SortKey(Head(sorted)) >= SortKey(f)
         THEN <<Head(sorted)>> \o InsertDesc(Tail(sorted), f)
         ELSE <<f>> \o sorted

RECURSIVE SortDesc(_)
SortDesc(s) ==
    IF s = <<>> THEN <<>>
    ELSE InsertDesc(SortDesc(SubSeq(s, 1, Len(s) - 1)), s[Len(s)])

\* line 111: at most 5 quality options
MaxVideoOptions == 5

VideoEntry(f) ==
    [id |-> f.format_id, ext |-> "mp4", height |-> f.height,
     format_note |-> "", live |-> TRUE]

\* line 111: `if height and len(formats) < 5`
WalkAdmitsMutant(height, formats) == height # 0 /\ height # None
WalkAdmits(height, formats) ==
    height # 0 /\ height # None /\ Len(formats) < MaxVideoOptions

\* lines 108-121: the walk over the sorted entries
RECURSIVE Walk(_, _, _)
Walk(rest, formats, added_resolutions) ==
    IF rest = <<>> THEN formats
    ELSE LET fmt == Head(rest)
             take == /\ WalkAdmits(fmt.height, formats)
                     /\ fmt.height \notin added_resolutions
         IN  IF take
             THEN Walk(Tail(rest), Append(formats, VideoEntry(fmt)),
                       added_resolutions \cup {fmt.height})
             ELSE Walk(Tail(rest), formats, added_resolutions)

\* lines 124-139
Mp3Entry == [id |-> "bestaudio/best", ext |-> "mp3", height |-> None,
             format_note |-> "Audio", live |-> TRUE]
WavEntry == [id |-> "bestaudio/best", ext |-> "wav", height |-> None,
             format_note |-> "Audio", live |-> TRUE]

LiveFormatsMutant(listing) ==
    <<Mp3Entry>> \o Walk(SortDesc(video_formats(listing)), <<>>, {})
        \o <<WavEntry>>
LiveFormats(listing) ==
    Walk(SortDesc(video_formats(listing)), <<>>, {}) \o <<Mp3Entry, WavEntry>>

ProbeOutcomes == {"ok", "no_formats_key", "fail"}

\* info.get('formats', [])
InfoFormats(p, listing) == IF p = "ok" THEN listing ELSE <<>>

\* lines 95-146: the inner try block
InnerTry(p, listing) ==
    IF p = "fail" THEN Raised("Erro ao obter informacoes do video")
    ELSE IF video_formats(InfoFormats(p, listing)) # <<>>
         THEN Returned(LiveFormats(InfoFormats(p, listing)), "probed")
         ELSE IF get_fallback_formats.raised
              THEN get_fallback_formats
              ELSE Returned(get_fallback_formats.formats, "probed")

\* lines 148-161: the handler of the inner try; p2 is the second probe
InnerExcept(p2) ==
    IF get_fallback_formats.raised
    THEN get_fallback_formats
    ELSE Returned(get_fallback_formats.formats,
                  IF p2 = "fail" THEN "placeholder" ELSE "probed")

\* line 156: the second probe is made by the handler, once line 152 has
\* produced the fallback list
SecondProbe(p, p2, listing) ==
    IF InnerTry(p, listing).raised /\ ~get_fallback_formats.raised
    THEN p2 ELSE "none"

\* lines 93-164
get_available_formats(p, p2, listing) ==
    LET inner == InnerTry(p, listing)
        outcome == IF inner.raised THEN InnerExcept(p2) ELSE inner
    IN  IF outcome.raised
        THEN Raised(<<"Erro ao obter formatos disponiveis", outcome.exc>>)
        ELSE outcome

(***************************************************************************)
(* SpecFormats                                                             *)
(***************************************************************************)
NoResult == [raised |-> FALSE, exc |-> "", formats |-> <<>>, info |-> "none"]

\* the values of the variables of a state machine that is not running
NoCall == [mode |-> "none", urls |-> <<>>, ext |-> <<>>, format_id |-> "",
           filename |-> <<>>]
NoCur == [url |-> <<>>, probe |-> "none", video_title |-> <<>>,
          safe_title |-> <<>>, filename |-> <<>>, scanned |-> FALSE]
NoOpts == [url |-> <<>>, format |-> "", outtmpl |-> <<>>, noplaylist |-> FALSE,
           postprocessors |-> <<>>, progress_hooks |-> 0,
           skip_download |-> TRUE]
NoRet == [code |-> 0, raised |-> FALSE, called |-> FALSE, wrote |-> {}]
NoDvResult == [status |-> "none", path |-> <<>>, exc |-> <<>>]
NoBatchResult == [status |-> "none", value |-> <<>>, exc |-> <<>>]
NoHook == [raised |-> FALSE, twin_raised |-> FALSE, twin_result |-> NoDvResult]

TitleIdle == tpc = "idle" /\ title = <<>> /\ safe = <<>>

FormatsIdle ==
    /\ fpc = "idle" /\ raw = <<>> /\ fprobe = "none" /\ fresult = NoResult
    /\ fprobe2 = "none"

\* no call is running on the VideoDownloader
NoCallRunning ==
    /\ dpc = "idle" /\ call = NoCall /\ idx = 0 /\ cur = NoCur /\ dir = {}
    /\ opts = NoOpts /\ adapter_ret = NoRet /\ dv_result = NoDvResult
    /\ downloaded_files = <<>> /\ errors = <<>>
    /\ batch_result = NoBatchResult /\ log = <<>> /\ invoked = <<>>
    /\ emitted = <<>> /\ delivered = <<>> /\ hookst = NoHook

\* VideoDownloader(): progress_callback defaults to None
DownloadIdle == NoCallRunning /\ sink = FALSE

MaxDownloads == 2  \* most DownloadThreads that run or have signals queued

\* no DownloadThread at a position of dthreads
NoThread ==
    [state |-> "none", outcome |-> NoDvResult, signals |-> <<>>,
     cancelled |-> FALSE]

\* MainWindow.__init__, lines 93-97, and _init_ui: the combo box and the
\* download and cancel buttons start disabled (lines 161, 191, 197)
GuiIdle ==
    /\ url_edit = <<>>
    /\ enabled = [fetch |-> TRUE, download |-> FALSE, cancel |-> FALSE,
                  combo |-> FALSE]
    /\ format_combo = [count |-> 0, index |-> -1]
    /\ current_formats = <<>>
    /\ formats_of = <<>>
    /\ is_downloading = FALSE
    /\ download_thread = 0
    /\ progress_bar = 0
    /\ dthreads = [i \in 1..MaxDownloads |-> NoThread]
    /\ iworkers = <<>>
    /\ events = <<>>

InitFormats ==
    /\ fpc = "listing"
    /\ raw = <<>>
    /\ fprobe = "none"
    /\ fresult = NoResult
    /\ fprobe2 = "none"
    /\ TitleIdle
    /\ DownloadIdle
    /\ GuiIdle

\* the extractor lists one more format
ExtractorLists ==
    /\ fpc = "listing"
    /\ \E f \in Catalogue :
          /\ InScope(Append(raw, f))
          /\ raw' = Append(raw, f)
    /\ UNCHANGED <<fpc, fprobe, fresult, fprobe2>>
    /\ UNCHANGED <<tvars, dvars, gvars>>

\* one call of get_available_formats on the URL whose listing is raw
GetAvailableFormats ==
    /\ fpc = "listing"
    /\ \E p \in ProbeOutcomes, p2 \in ProbeOutcomes :
          /\ fprobe' = p
          /\ fresult' = get_available_formats(p, p2, raw)
          /\ fprobe2' = SecondProbe(p, p2, raw)
    /\ fpc' = "returned"
    /\ UNCHANGED raw
    /\ UNCHANGED <<tvars, dvars, gvars>>

NextFormats == ExtractorLists \/ GetAvailableFormats

SpecFormats == InitFormats /\ [][NextFormats]_vars

(***************************************************************************)
(* Title sanitisation: download_video, lines 193-195                       *)
(***************************************************************************)
MaxTitle == 4      \* longest title typed from TitleAlphabet

\* characters for which str.isalnum() is true
AlnumChars ==
    {"a", "b", "c", "d", "e", "f", "g", "h", "i", "j", "k", "l", "m", "n",
     "o", "p", "q", "r", "s", "t", "u", "v", "w", "x", "y", "z",
     "A", "B", "C", "D", "E", "F", "G", "H", "I", "J", "K", "L", "M", "N",
     "O", "P", "Q", "R", "S", "T", "U", "V", "W", "X", "Y", "Z",
     "0", "1", "2", "3", "4", "5", "6", "7", "8", "9"}

\* line 194: the literal ' -_.,()[]{}'
KeptLiteral == <<" ", "-", "_", ".", ",", "(", ")", "[", "]", "{", "}">>

\* line 194: `c.isalnum() or c in ' -_.,()[]{}'`
KeepsCharMutant(c) == c \in AlnumChars \/ c \in Range(KeptLiteral) \/ c = ":"
KeepsChar(c) == c \in AlnumChars \/ c \in Range(KeptLiteral)

\* characters str.strip() removes
Whitespace == {" ", "\t", "\n"}

RECURSIVE LStrip(_)
LStrip(s) ==
    IF s # <<>> /\ Head(s) \in Whitespace THEN LStrip(Tail(s)) ELSE s

RECURSIVE RStrip(_)
RStrip(s) ==
    IF s # <<>> /\ s[Len(s)] \in Whitespace
    THEN RStrip(SubSeq(s, 1, Len(s) - 1)) ELSE s

\* line 195: str.strip()
Strip(s) == RStrip(LStrip(s))

\* lines 194-195
SafeTitle(video_title) == Strip(SelectSeq(video_title, KeepsChar))

TitleAlphabet == {"a", "7", " ", ".", ":", "!", "\t"}

\* "Title: Test!? (HD)"
ExampleTitle ==
    <<"T", "i", "t", "l", "e", ":", " ", "T", "e", "s", "t", "!", "?", " ",
      "(", "H", "D", ")">>

\* "Title Test (HD)"
ExampleSafe ==
    <<"T", "i", "t", "l", "e", " ", "T", "e", "s", "t", " ", "(", "H", "D", ")">>

InitTitle ==
    /\ tpc = "input"
    /\ title = <<>>
    /\ safe = <<>>
    /\ FormatsIdle
    /\ DownloadIdle
    /\ GuiIdle

\* the probed title gets one more character
TitleChar ==
    /\ tpc = "input"
    /\ Len(title) < MaxTitle
    /\ \E c \in TitleAlphabet : title' = Append(title, c)
    /\ UNCHANGED <<tpc, safe>>
    /\ UNCHANGED <<fvars, dvars, gvars>>

\* the probed title is the documented example
TitleExample ==
    /\ tpc = "input"
    /\ title = <<>>
    /\ title' = ExampleTitle
    /\ UNCHANGED <<tpc, safe>>
    /\ UNCHANGED <<fvars, dvars, gvars>>

\* lines 194-195 run on the title
Sanitize ==
    /\ tpc = "input"
    /\ safe' = SafeTitle(title)
    /\ tpc' = "done"
    /\ UNCHANGED title
    /\ UNCHANGED <<fvars, dvars, gvars>>

NextTitle == TitleChar \/ TitleExample \/ Sanitize

SpecTitle == InitTitle /\ [][NextTitle]_vars

(***************************************************************************)
(* Strings used by download_video                                          *)
(***************************************************************************)
Max(S) == CHOOSE x \in S : \A y \in S : y <= x

StartsWith(s, prefix) ==
    Len(prefix) <= Len(s) /\ SubSeq(s, 1, Len(prefix)) = prefix

\* the positions of s where sub occurs
Occurrences(s, sub) ==
    {i \in 1..Len(s) :
        i + Len(sub) - 1 <= Len(s) /\ SubSeq(s, i, i + Len(sub) - 1) = sub}

\* s.split(sub)[-1]
LastPiece(s, sub) ==
    IF Occurrences(s, sub) = {} THEN s
    ELSE SubSeq(s, Max(Occurrences(s, sub)) + Len(sub), Len(s))

\* os.path.splitext(name)[0] of a name without directory separators: the
\* extension starts at the last dot, unless only dots precede it
SplitextRoot(name) ==
    LET k == Max({0} \cup {i \in 1..Len(name) : name[i] = "."})
    IN  IF k = 0 \/ \A i \in 1..k : name[i] = "." THEN name
        ELSE SubSeq(name, 1, k - 1)

Mp4 == <<"m", "p", "4">>
Mp3 == <<"m", "p", "3">>
Wav == <<"w", "a", "v">>
Webm == <<"w", "e", "b", "m">>

\* "youtube_video_"
YoutubeVideo ==
    <<"y", "o", "u", "t", "u", "b", "e", "_", "v", "i", "d", "e", "o", "_">>

\* line 191: f"youtube_video_{url.split('v=')[-1] if 'v=' in url else 'download'}"
GeneratedTitleMutant(url) == YoutubeVideo \o LastPiece(url, <<"v", "=">>)
GeneratedTitle(url) ==
    YoutubeVideo \o
        (IF Occurrences(url, <<"v", "=">>) # {}
         THEN LastPiece(url, <<"v", "=">>)
         ELSE <<"d", "o", "w", "n", "l", "o", "a", "d">>)

(***************************************************************************)
(* Inputs of the download calls                                            *)
(***************************************************************************)
MaxUrls == 2       \* longest URL list given to download_multiple

\* "y?v=ab" and "y/c"
UrlWithId == <<"y", "?", "v", "=", "a", "b">>
UrlWithoutId == <<"y", "/", "c">>
Urls == {UrlWithId, UrlWithoutId}

RECURSIVE SeqsUpTo(_, _)
SeqsUpTo(S, n) ==
    IF n = 0 THEN {<<>>}
    ELSE LET shorter == SeqsUpTo(S, n - 1)
         IN  shorter \cup {Append(l, x) : l \in shorter, x \in S}

Exts == {Mp4, Mp3, Wav, Webm}
FormatIds == {"18", "bestaudio/best"}
BatchExts == {Mp4, Mp3}
BatchFormatIds == {"18"}

\* "clip.mp4", an explicit filename
ExplicitName == <<"c", "l", "i", "p", ".", "m", "p", "4">>
FilenameArgs == {<<>>, ExplicitName}

\* what the destination directory holds when the call is made
InitialDirs == {{}, {<<"a", "b", ".", "m", "p", "4">>}}

\* the probe of download_video: it raises, or info has no 'title' key, or
\* the title is None, or the title is one of DTitles
DProbeOutcomes == {"fail", "no_title_key", "title_none", "ok"}
DTitles == {<<>>, <<"a">>, <<"a", "b">>, <<"?">>}

(***************************************************************************)
(* VideoDownloader.download_video                                          *)
(***************************************************************************)
\* lines 186-191
VideoTitle(p, t, url) ==
    CASE p = "fail" -> GeneratedTitle(url)
      [] p = "no_title_key" -> <<"v", "i", "d", "e", "o">>
      [] OTHER -> t

\* lines 197-198
Filename(filename, safe_title, ext) ==
    IF filename # <<>> THEN filename ELSE safe_title \o <<".">> \o ext

\* lines 207, 221, 232: the 'format' option
EffectiveFormatMutant(format_id, ext) ==
    IF ext = Mp3 THEN "bestaudio/best" ELSE format_id
EffectiveFormat(format_id, ext) ==
    IF ext = Mp3 \/ ext = Wav THEN "bestaudio/best" ELSE format_id

\* lines 216-220, 227-231: the 'postprocessors' option
Postprocessors(ext) ==
    CASE ext = Mp3 -> <<[key |-> "FFmpegExtractAudio", preferredcodec |-> Mp3,
                         preferredquality |-> "192"]>>
      [] ext = Wav -> <<[key |-> "FFmpegExtractAudio", preferredcodec |-> Wav,
                         preferredquality |-> "best"]>>
      [] OTHER -> <<>>

\* lines 203-233
YdlOptsMutant(url, format_id, ext, output_file) ==
    [url |-> url, format |-> EffectiveFormat(format_id, ext),
     outtmpl |-> output_file, noplaylist |-> (ext # Mp3 /\ ext # Wav),
     postprocessors |-> Postprocessors(ext), progress_hooks |-> 1,
     skip_download |-> FALSE]
YdlOpts(url, format_id, ext, output_file) ==
    [url |-> url, format |-> EffectiveFormat(format_id, ext),
     outtmpl |-> output_file, noplaylist |-> TRUE,
     postprocessors |-> Postprocessors(ext), progress_hooks |-> 1,
     skip_download |-> FALSE]

\* line 237
TransferFailedMutant(error_code) == error_code < 0
TransferFailed(error_code) == error_code # 0

\* str(error_code)
CodeStr(error_code) == IF error_code = 0 THEN "0" ELSE "1"

\* lines 244-247
PotentialFilesMutant(entries, output_file) ==
    {f \in entries : f = SplitextRoot(output_file)}
PotentialFilesUnfiltered(entries, output_file) == entries
PotentialFiles(entries, output_file) ==
    {f \in entries : StartsWith(f, SplitextRoot(output_file))}

DvReturned(name) == [status |-> "returned", path |-> name, exc |-> <<>>]

\* line 258: every exception leaves download_video wrapped
DvRaised(e) ==
    [status |-> "raised", path |-> <<>>, exc |-> <<"Erro ao baixar video: ">> \o e]

CodeError(error_code) ==
    <<"Erro ao baixar video (codigo ", CodeStr(error_code), ")">>
NotCreated == <<"Arquivo nao foi criado apos o download">>

\* what ydl.download can do: a completion code, or an exception
AdapterCodes == {0, 1}
AdapterOutcomes ==
    {[code |-> c, raised |-> FALSE, called |-> TRUE, wrote |-> {}] :
        c \in AdapterCodes}
        \cup {[code |-> 0, raised |-> TRUE, called |-> TRUE, wrote |-> {}]}

\* the names it may leave in the destination directory: none, the output
\* template's, or the template's with the extension a post-processor chose
Writes(outtmpl) ==
    {{}, {outtmpl}, {SplitextRoot(outtmpl) \o <<".", "m", "k", "v">>}}

(***************************************************************************)
(* VideoDownloader._get_progress_hook                                      *)
(***************************************************************************)
MaxEvents == 2     \* most events the adapter emits during one download

\* the dictionaries yt-dlp hands to a progress hook
ProgressEvents ==
    {[status |-> "downloading", downloaded_bytes |-> 1],
     [status |-> "downloading", downloaded_bytes |-> 2],
     [status |-> "finished", downloaded_bytes |-> 2]}

\* lines 30-32: what one call of progress_hook(d) does
ProgressHookUnguarded(progress_callback, d) ==
    [raised |-> ~progress_callback,
     delivered |-> IF progress_callback THEN <<d>> ELSE <<>>]
ProgressHookDrops(progress_callback, d) ==
    [raised |-> FALSE,
     delivered |-> IF progress_callback /\ d.status = "downloading"
                   THEN <<d>> ELSE <<>>]
ProgressHook(progress_callback, d) ==
    [raised |-> FALSE,
     delivered |-> IF progress_callback THEN <<d>> ELSE <<>>]

\* the outcome of the twin run, given the outcome of this one: the runs
\* differ only where a hook raised, which ends ydl.download with that
\* exception (line 258 wraps it)
TwinResult(hook_raised, twin_raised, result) ==
    IF hook_raised = twin_raised THEN result
    ELSE IF twin_raised THEN DvRaised(<<"TypeError">>)
    ELSE NoDvResult

(***************************************************************************)
(* VideoDownloader.download_multiple                                       *)
(***************************************************************************)
\* line 285
ErrorEntry(url, e) == [prefix |-> "Erro ao baixar ", url |-> url, reason |-> e]

\* line 280: the for loop moves to the next URL, whatever the attempt did
BatchStepMutant(i, n, failed) == IF failed THEN n + 1 ELSE i + 1
BatchStepRetry(i, n, failed) == IF failed THEN i ELSE i + 1
BatchStep(i, n, failed) == i + 1

\* lines 287-291
BatchOutcomeMutant(files, errs) ==
    IF Len(errs) > 1
    THEN [status |-> "raised", value |-> <<>>, exc |-> errs]
    ELSE [status |-> "returned", value |-> files, exc |-> <<>>]
BatchOutcome(files, errs) ==
    IF errs # <<>>
    THEN [status |-> "raised", value |-> <<>>, exc |-> errs]
    ELSE [status |-> "returned", value |-> files, exc |-> <<>>]

(***************************************************************************)
(* SpecDownload                                                            *)
(***************************************************************************)
InitDownload ==
    /\ DownloadIdle
    /\ FormatsIdle
    /\ TitleIdle
    /\ GuiIdle

\* a caller calls download_video
CallDownloadVideo ==
    /\ dpc = "idle"
    /\ \E url \in Urls, e \in Exts, fid \in FormatIds, fn \in FilenameArgs,
          d \in InitialDirs :
          /\ call' = [mode |-> "single", urls |-> <<url>>, ext |-> e,
                      format_id |-> fid, filename |-> fn]
          /\ dir' = d
    /\ idx' = 1
    /\ dpc' = "start"
    /\ UNCHANGED <<cur, opts, adapter_ret, dv_result, downloaded_files,
                   errors, batch_result, log, invoked>>
    /\ UNCHANGED pvars
    /\ UNCHANGED <<fvars, tvars, gvars>>

\* a caller calls download_multiple; lines 277-278, and 287-291 when the
\* list is empty
CallDownloadMultiple ==
    /\ dpc = "idle"
    /\ \E us \in SeqsUpTo(Urls, MaxUrls), e \in BatchExts,
          fid \in BatchFormatIds, d \in InitialDirs :
          /\ call' = [mode |-> "batch", urls |-> us, ext |-> e,
                      format_id |-> fid, filename |-> <<>>]
          /\ dir' = d
          /\ idx' = 1
          /\ IF us = <<>>
             THEN dpc' = "done" /\ batch_result' = BatchOutcome(<<>>, <<>>)
             ELSE dpc' = "start" /\ batch_result' = batch_result
    /\ downloaded_files' = <<>>
    /\ errors' = <<>>
    /\ UNCHANGED <<cur, opts, adapter_ret, dv_result, log, invoked>>
    /\ UNCHANGED pvars
    /\ UNCHANGED <<fvars, tvars, gvars>>

\* download_video, lines 184-235: probe, file name, options, up to the
\* adapter's invocation
DvStart ==
    /\ dpc = "start"
    /\ \E p \in DProbeOutcomes, t \in DTitles :
          LET url == call.urls[idx]
              video_title == VideoTitle(p, t, url)
              safe_title == SafeTitle(video_title)
              filename == Filename(call.filename, safe_title, call.ext)
          IN  IF p = "title_none"
              THEN \* line 194 iterates None: TypeError
                   /\ cur' = [NoCur EXCEPT !.url = url, !.probe = p]
                   /\ dv_result' = DvRaised(<<"TypeError">>)
                   /\ log' = log \o <<[ev |-> "begin", i |-> idx, url |-> url,
                                       result |-> NoDvResult],
                                      [ev |-> "end", i |-> idx, url |-> url,
                                       result |-> dv_result']>>
                   /\ dpc' = "returned"
                   /\ hookst' = [NoHook EXCEPT !.twin_result = dv_result']
                   /\ UNCHANGED <<opts, adapter_ret, invoked>>
              ELSE /\ cur' = [url |-> url, probe |-> p,
                              video_title |-> video_title,
                              safe_title |-> safe_title,
                              filename |-> filename, scanned |-> FALSE]
                   /\ opts' = YdlOpts(url, call.format_id, call.ext, filename)
                   /\ adapter_ret' = NoRet
                   /\ dv_result' = NoDvResult
                   /\ log' = Append(log, [ev |-> "begin", i |-> idx,
                                          url |-> url, result |-> NoDvResult])
                   /\ invoked' = Append(invoked, idx)
                   /\ hookst' = NoHook
                   /\ dpc' = "transfer"
    /\ emitted' = <<>>
    /\ delivered' = <<>>
    /\ UNCHANGED <<call, idx, dir, downloaded_files, errors, batch_result,
                   sink>>
    /\ UNCHANGED <<fvars, tvars, gvars>>

\* ydl.download([url]), line 236
AdapterDownload ==
    /\ dpc = "transfer"
    /\ \E r \in AdapterOutcomes, w \in Writes(opts.outtmpl) :
          /\ r.raised => w = {}
          /\ adapter_ret' = [r EXCEPT !.wrote = w]
          /\ dir' = dir \cup w
    /\ dpc' = "verify"
    /\ UNCHANGED <<call, idx, cur, opts, dv_result, downloaded_files, errors,
                   batch_result, log, invoked>>
    /\ UNCHANGED pvars
    /\ UNCHANGED <<fvars, tvars, gvars>>

\* download_video, lines 237-258: the completion code, the output file
DvFinish ==
    /\ dpc = "verify"
    /\ IF adapter_ret.raised
       THEN dv_result' = DvRaised(<<"DownloadError">>) /\ cur' = cur
       ELSE IF TransferFailed(adapter_ret.code)
       THEN dv_result' = DvRaised(CodeError(adapter_ret.code)) /\ cur' = cur
       ELSE IF cur.filename \in dir
       THEN dv_result' = DvReturned(cur.filename) /\ cur' = cur
       ELSE /\ cur' = [cur EXCEPT !.scanned = TRUE]
            /\ IF PotentialFiles(dir, cur.filename) # {}
               THEN \* os.listdir lists in arbitrary order
                    \E f \in PotentialFiles(dir, cur.filename) :
                        dv_result' = DvReturned(f)
               ELSE dv_result' = DvRaised(NotCreated)
    /\ log' = Append(log, [ev |-> "end", i |-> idx, url |-> cur.url,
                           result |-> dv_result'])
    /\ dpc' = "returned"
    /\ hookst' = [hookst EXCEPT !.twin_result =
                     TwinResult(hookst.raised, hookst.twin_raised, dv_result')]
    /\ UNCHANGED <<call, idx, dir, opts, adapter_ret, downloaded_files, errors,
                   batch_result, invoked, sink, emitted, delivered>>
    /\ UNCHANGED <<fvars, tvars, gvars>>

\* download_multiple, lines 280-291: the attempt's result is recorded, the
\* loop goes on, and after the last URL the call returns or raises
BatchCollect ==
    /\ dpc = "returned"
    /\ call.mode = "batch"
    /\ LET failed == dv_result.status = "raised"
           files == IF failed THEN downloaded_files
                    ELSE Append(downloaded_files, dv_result.path)
           errs == IF failed
                   THEN Append(errors, ErrorEntry(call.urls[idx], dv_result.exc))
                   ELSE errors
           next == BatchStep(idx, Len(call.urls), failed)
       IN  /\ downloaded_files' = files
           /\ errors' = errs
           /\ idx' = next
           /\ IF next > Len(call.urls)
              THEN dpc' = "done" /\ batch_result' = BatchOutcome(files, errs)
              ELSE dpc' = "start" /\ batch_result' = batch_result
    \* the locals of the download_video call that returned are gone
    /\ cur' = NoCur
    /\ opts' = NoOpts
    /\ adapter_ret' = NoRet
    /\ dv_result' = NoDvResult
    /\ emitted' = <<>>
    /\ delivered' = <<>>
    /\ hookst' = NoHook
    /\ UNCHANGED <<call, dir, log, invoked, sink>>
    /\ UNCHANGED <<fvars, tvars, gvars>>

\* the adapter emits a progress event: yt-dlp calls progress_hook(d), and
\* goes on only when the hook has returned
AdapterProgress ==
    /\ dpc = "transfer"
    /\ Len(emitted) < MaxEvents
    /\ \E d \in ProgressEvents :
          LET here == ProgressHook(sink, d)
              twin == ProgressHook(~sink, d)
          IN  /\ emitted' = Append(emitted, d)
              /\ delivered' = delivered \o here.delivered
              /\ hookst' = [hookst EXCEPT
                               !.raised = here.raised,
                               !.twin_raised = hookst.twin_raised \/ twin.raised]
              /\ IF here.raised
                 THEN /\ adapter_ret' =
                            [code |-> 0, raised |-> TRUE, called |-> TRUE,
                             wrote |-> {}]
                      /\ dpc' = "verify"
                 ELSE UNCHANGED <<adapter_ret, dpc>>
    /\ UNCHANGED <<call, idx, cur, dir, opts, dv_result, downloaded_files,
                   errors, batch_result, log, invoked, sink>>
    /\ UNCHANGED <<fvars, tvars, gvars>>

NextDownload ==
    \/ CallDownloadVideo
    \/ CallDownloadMultiple
    \/ DvStart
    \/ AdapterDownload
    \/ DvFinish
    \/ BatchCollect

SpecDownload == InitDownload /\ [][NextDownload]_vars

(***************************************************************************)
(* SpecProgress: single downloads whose adapter reports progress, on a     *)
(* VideoDownloader constructed with or without a progress_callback         *)
(***************************************************************************)
InitProgress ==
    /\ NoCallRunning
    /\ sink \in BOOLEAN
    /\ FormatsIdle
    /\ TitleIdle
    /\ GuiIdle

NextProgress ==
    \/ CallDownloadVideo
    \/ DvStart
    \/ AdapterProgress
    \/ AdapterDownload
    \/ DvFinish

SpecProgress == InitProgress /\ [][NextProgress]_vars

(***************************************************************************)
(* MainWindow, DownloadThread and VideoInfoWorker (gui/main_window.py)     *)
(***************************************************************************)
MaxProbes == 1     \* most VideoInfoWorkers whose signal is not yet processed
MaxSignals == 1    \* most progress signals one DownloadThread emits

YoutubeCom == <<"y", "o", "u", "t", "u", "b", "e", ".", "c", "o", "m">>
YoutuBe == <<"y", "o", "u", "t", "u", ".", "b", "e">>

\* what the user may put into the URL field: nothing, or one of two video
\* URLs (one typed with a leading space)
TextA == YoutubeCom \o <<"/", "a">>
TextB == <<" ">> \o YoutuBe \o <<"/", "b">>
Texts == {<<>>, TextA, TextB}

\* sub in s
Contains(s, sub) == Occurrences(s, sub) # {}

\* MainWindow._check_url, lines 405-411
CheckUrl(text, en) ==
    LET url == Strip(text)
    IN  IF url # <<>> /\ (Contains(url, YoutubeCom) \/ Contains(url, YoutuBe))
        THEN [en EXCEPT !.fetch = TRUE]
        ELSE [en EXCEPT !.fetch = FALSE, !.download = FALSE, !.combo = FALSE]

\* a signal queued for the window's thread; from is the position of the
\* emitting thread in dthreads or iworkers
Queued(sig, from, payload) == [sig |-> sig, from |-> from, payload |-> payload]

\* the workers left when the signal of a finished one has been processed
\* (finished workers are alike)
WorkerDone(ws) ==
    LET i == CHOOSE k \in 1..Len(ws) :
                 /\ ws[k].state = "finished"
                 /\ \A j \in 1..(k - 1) : ws[j].state # "finished"
    IN  SubSeq(ws, 1, i - 1) \o SubSeq(ws, i + 1, Len(ws))

\* the listings the extractor has for the URLs of Texts
GuiListings == {<<RawFormat("f1", "mp4", 1, "mp4a")>>}

\* VideoInfoWorker.get_info, lines 757-763: formats_ready or error; the
\* finished signal that follows only quits the worker's thread
GetInfo(from, url, p, p2, listing) ==
    LET r == get_available_formats(p, p2, listing)
    IN  IF r.raised
        THEN <<Queued("error", from, r.exc)>>
        ELSE <<Queued("formats_ready", from,
                      [formats |-> r.formats, url |-> url])>>

\* the progress dictionary of a download of 2 bytes, half done
GuiProgressEvents ==
    {[status |-> "downloading", downloaded_bytes |-> 1, total_bytes |-> 2]}

\* what download_video of a DownloadThread may do: return a path or raise
GuiOutcomes ==
    {DvReturned(<<"a", ".", "m", "p", "4">>), DvRaised(<<"DownloadError">>)}

\* DownloadThread.run, lines 64-70: the terminal signal for an outcome of
\* download_video
RunMutant(outcome) ==
    IF outcome.status = "returned"
    THEN <<[sig |-> "finished_signal", arg |-> outcome.path]>>
    ELSE <<>>
Run(outcome) ==
    IF outcome.status = "returned"
    THEN <<[sig |-> "finished_signal", arg |-> outcome.path]>>
    ELSE <<[sig |-> "error_signal", arg |-> outcome.exc]>>

\* DownloadThread.__init__ and start(), with the history of the thread; its
\* arguments (lines 51-54) only feed download_video, whose outcomes
\* GuiOutcomes lists
NewThread ==
    [state |-> "running",      \* running | finished | terminated
     outcome |-> NoDvResult,   \* what its download_video did
     signals |-> <<>>,         \* the signals it emitted
     cancelled |-> FALSE]      \* _cancel_download has cancelled it

\* the thread has been started and has neither finished nor been terminated
IsRunning(t) == t.state = "running"

\* MainWindow._update_progress, lines 535-569: the value of the progress bar
\* (the texts it shows are not modelled)
ProgressView(d, bar) ==
    IF d.status = "downloading" /\ d.total_bytes > 0
    THEN (d.downloaded_bytes * 100) \div d.total_bytes
    ELSE bar

\* the signals a DownloadThread emits
ThreadSignals == {"progress_signal", "finished_signal", "error_signal"}

\* the threads that are left: one that is over and has no signal queued is
\* gone, nothing refers to it any more
Collect(threads, queue) ==
    [i \in DOMAIN threads |->
        IF /\ threads[i].state \in {"finished", "terminated"}
           /\ \A k \in 1..Len(queue) :
                  ~(queue[k].sig \in ThreadSignals /\ queue[k].from = i)
        THEN NoThread ELSE threads[i]]

\* the position a new thread takes in dthreads
FreeSlots == {i \in DOMAIN dthreads : dthreads[i] = NoThread}

\* lines 579-582, 616-619 and 639-642: the controls after a download
ControlsReady ==
    [fetch |-> TRUE, download |-> TRUE, cancel |-> FALSE, combo |-> TRUE]

\* a thread whose terminal callback has run, or that was cancelled: nothing
\* reads its outcome or its signals any more
Spent(t) ==
    [t EXCEPT !.outcome = NoDvResult, !.signals = <<>>]

(***************************************************************************)
(* SpecGui                                                                 *)
(***************************************************************************)
InitGui ==
    /\ GuiIdle
    /\ DownloadIdle
    /\ FormatsIdle
    /\ TitleIdle

\* the user changes the text of the URL field: textChanged runs _check_url
EditUrl ==
    /\ \E text \in Texts \ {url_edit} :
          /\ url_edit' = text
          /\ enabled' = CheckUrl(text, enabled)
    /\ UNCHANGED <<format_combo, current_formats, formats_of, is_downloading,
                   download_thread, progress_bar, dthreads,
                   iworkers, events>>
    /\ UNCHANGED <<fvars, tvars, dvars>>

\* the user clicks the fetch button: _fetch_video_info, lines 415-440
FetchVideoInfo ==
    /\ enabled.fetch
    /\ Len(iworkers) < MaxProbes
    /\ LET url == Strip(url_edit)
       IN  IF url = <<>>
           THEN UNCHANGED <<enabled, format_combo, iworkers>>
           ELSE /\ enabled' = [enabled EXCEPT !.fetch = FALSE,
                                              !.download = FALSE]
                /\ format_combo' = [count |-> 0, index |-> -1]
                /\ iworkers' = Append(iworkers,
                                      [url |-> url, state |-> "running"])
    /\ UNCHANGED <<url_edit, current_formats, formats_of, is_downloading,
                   download_thread, progress_bar, dthreads,
                   events>>
    /\ UNCHANGED <<fvars, tvars, dvars>>

\* a VideoInfoWorker runs get_info in its thread
InfoWorkerGetInfo ==
    /\ \E i \in 1..Len(iworkers) :
          /\ iworkers[i].state = "running"
          /\ \E pr \in ProbeOutcomes, pr2 \in ProbeOutcomes,
                listing \in GuiListings :
                events' = events \o
                    GetInfo(i, iworkers[i].url, pr, pr2, listing)
          /\ iworkers' = [iworkers EXCEPT ![i] =
                              [url |-> <<>>, state |-> "finished"]]
    /\ UNCHANGED <<url_edit, enabled, format_combo, current_formats,
                   formats_of, is_downloading, download_thread, progress_bar, dthreads>>
    /\ UNCHANGED <<fvars, tvars, dvars>>

\* the window processes formats_ready: _update_formats, lines 452-481
UpdateFormats ==
    /\ events # <<>>
    /\ Head(events).sig = "formats_ready"
    /\ LET formats == Head(events).payload.formats
       IN  /\ current_formats' = formats
           /\ formats_of' = Head(events).payload.url
           /\ format_combo' = [count |-> Len(formats),
                               index |-> IF Len(formats) > 0 THEN 0 ELSE -1]
    /\ enabled' = [enabled EXCEPT !.combo = TRUE, !.download = TRUE,
                                  !.fetch = TRUE]
    /\ events' = Tail(events)
    /\ iworkers' = WorkerDone(iworkers)
    /\ UNCHANGED <<url_edit, is_downloading, download_thread, progress_bar, dthreads>>
    /\ UNCHANGED <<fvars, tvars, dvars>>

\* the window processes a worker's error: _show_error, lines 694-698
ShowError ==
    /\ events # <<>>
    /\ Head(events).sig = "error"
    /\ enabled' = [enabled EXCEPT !.fetch = TRUE]
    /\ events' = Tail(events)
    /\ iworkers' = WorkerDone(iworkers)
    /\ UNCHANGED <<url_edit, format_combo, current_formats, formats_of,
                   is_downloading, download_thread, progress_bar, dthreads>>
    /\ UNCHANGED <<fvars, tvars, dvars>>

\* the user picks another entry of the format combo box
SelectFormat ==
    /\ enabled.combo
    /\ \E i \in (0..(format_combo.count - 1)) \ {format_combo.index} :
          format_combo' = [format_combo EXCEPT !.index = i]
    /\ UNCHANGED <<url_edit, enabled, current_formats, formats_of,
                   is_downloading, download_thread, progress_bar, dthreads, iworkers, events>>
    /\ UNCHANGED <<fvars, tvars, dvars>>

\* the user clicks the download button: _start_download, lines 497-527
StartDownload ==
    /\ enabled.download
    /\ FreeSlots # {}
    /\ LET selected_format_idx == format_combo.index
       IN  IF is_downloading
           THEN UNCHANGED <<enabled, is_downloading, download_thread,
                            progress_bar, dthreads>>
           ELSE IF \/ selected_format_idx < 0
                   \/ selected_format_idx >= Len(current_formats)
           THEN \* _show_error("Selecione um formato valido")
                /\ enabled' = [enabled EXCEPT !.fetch = TRUE]
                /\ UNCHANGED <<is_downloading, download_thread, progress_bar, dthreads>>
           ELSE /\ progress_bar' = 0
                /\ is_downloading' = TRUE
                /\ enabled' = [fetch |-> FALSE, download |-> FALSE,
                               cancel |-> TRUE, combo |-> FALSE]
                /\ \E slot \in FreeSlots :
                      /\ \A i \in FreeSlots : slot <= i
                      /\ dthreads' = [dthreads EXCEPT ![slot] = NewThread]
                      /\ download_thread' = slot
    /\ UNCHANGED <<url_edit, format_combo, current_formats, formats_of,
                   iworkers, events>>
    /\ UNCHANGED <<fvars, tvars, dvars>>

\* the adapter of a DownloadThread emits a progress event: the hook hands it
\* to _progress_callback, which emits progress_signal (line 60)
ThreadProgress ==
    /\ \E t \in DOMAIN dthreads :
          /\ dthreads[t].state = "running"
          /\ Len(dthreads[t].signals) < MaxSignals
          /\ \E d \in GuiProgressEvents :
                LET got == ProgressHook(TRUE, d).delivered
                IN  /\ dthreads' = [dthreads EXCEPT ![t].signals = @ \o
                          [k \in 1..Len(got) |->
                              [sig |-> "progress_signal", arg |-> got[k]]]]
                    /\ events' = events \o
                          [k \in 1..Len(got) |->
                              Queued("progress_signal", t, got[k])]
    /\ UNCHANGED <<url_edit, enabled, format_combo, current_formats,
                   formats_of, is_downloading, download_thread, progress_bar, iworkers>>
    /\ UNCHANGED <<fvars, tvars, dvars>>

\* download_video of a DownloadThread returns or raises, run emits the
\* terminal signal (lines 64-70) and the thread is over
ThreadRun ==
    /\ \E t \in DOMAIN dthreads :
          /\ dthreads[t].state = "running"
          /\ \E o \in GuiOutcomes :
                LET queue == events \o
                        [k \in 1..Len(Run(o)) |->
                            Queued(Run(o)[k].sig, t, Run(o)[k].arg)]
                IN  /\ events' = queue
                    /\ dthreads' = Collect([dthreads EXCEPT
                                               ![t].outcome = o,
                                               ![t].signals = @ \o Run(o),
                                               ![t].state = "finished"],
                                           queue)
    /\ UNCHANGED <<url_edit, enabled, format_combo, current_formats,
                   formats_of, is_downloading, download_thread, progress_bar,
                   iworkers>>
    /\ UNCHANGED <<fvars, tvars, dvars>>

\* the window processes progress_signal: _update_progress
UpdateProgress ==
    /\ events # <<>>
    /\ Head(events).sig = "progress_signal"
    /\ progress_bar' = ProgressView(Head(events).payload, progress_bar)
    /\ events' = Tail(events)
    /\ dthreads' = Collect(dthreads, Tail(events))
    /\ UNCHANGED <<url_edit, enabled, format_combo, current_formats,
                   formats_of, is_downloading, download_thread, iworkers>>
    /\ UNCHANGED <<fvars, tvars, dvars>>

\* the window processes finished_signal: _download_finished, lines 577-585
DownloadFinished ==
    /\ events # <<>>
    /\ Head(events).sig = "finished_signal"
    /\ is_downloading' = FALSE
    /\ progress_bar' = 100
    /\ enabled' = ControlsReady
    /\ dthreads' = Collect([dthreads EXCEPT ![Head(events).from] = Spent(@)],
                            Tail(events))
    /\ events' = Tail(events)
    /\ UNCHANGED <<url_edit, format_combo, current_formats, formats_of,
                   download_thread, iworkers>>
    /\ UNCHANGED <<fvars, tvars, dvars>>

\* the window processes error_signal: _download_error, lines 614-622
DownloadError ==
    /\ events # <<>>
    /\ Head(events).sig = "error_signal"
    /\ is_downloading' = FALSE
    /\ progress_bar' = 0
    /\ enabled' = ControlsReady
    /\ dthreads' = Collect([dthreads EXCEPT ![Head(events).from] = Spent(@)],
                            Tail(events))
    /\ events' = Tail(events)
    /\ UNCHANGED <<url_edit, format_combo, current_formats, formats_of,
                   download_thread, iworkers>>
    /\ UNCHANGED <<fvars, tvars, dvars>>

\* the user clicks the cancel button: _cancel_download, lines 628-642;
\* terminate() ends a thread that is still running and does nothing to one
\* that is over
CancelDownload ==
    /\ enabled.cancel
    /\ IF download_thread # 0 /\ is_downloading
       THEN LET t == dthreads[download_thread]
            IN  /\ dthreads' = Collect([dthreads EXCEPT ![download_thread] =
                       [Spent(t) EXCEPT
                           !.state = IF IsRunning(t) THEN "terminated"
                                     ELSE t.state,
                           !.cancelled = TRUE]], events)
                /\ is_downloading' = FALSE
                /\ progress_bar' = 0
                /\ enabled' = ControlsReady
       ELSE UNCHANGED <<dthreads, is_downloading, progress_bar, enabled>>
    /\ UNCHANGED <<url_edit, format_combo, current_formats, formats_of,
                   download_thread, iworkers, events>>
    /\ UNCHANGED <<fvars, tvars, dvars>>

\* the user clicks the clear button: _clear_form, lines 646-661; the
\* _check_url that url_edit.clear() triggers disables controls that lines
\* 652-655 disable again
ClearForm ==
    /\ url_edit' = <<>>
    /\ format_combo' = [count |-> 0, index |-> -1]
    /\ progress_bar' = 0
    /\ enabled' = [fetch |-> FALSE, download |-> FALSE, cancel |-> FALSE,
                   combo |-> FALSE]
    /\ current_formats' = <<>>
    /\ formats_of' = <<>>
    /\ is_downloading' = FALSE
    /\ UNCHANGED <<download_thread, dthreads, iworkers, events>>
    /\ UNCHANGED <<fvars, tvars, dvars>>

NextGui ==
    \/ EditUrl
    \/ FetchVideoInfo
    \/ InfoWorkerGetInfo
    \/ UpdateFormats
    \/ ShowError
    \/ SelectFormat
    \/ StartDownload
    \/ ThreadProgress
    \/ ThreadRun
    \/ UpdateProgress
    \/ DownloadFinished
    \/ DownloadError
    \/ CancelDownload
    \/ ClearForm

SpecGui == InitGui /\ [][NextGui]_vars

(***************************************************************************)
(* SpecThread: one DownloadThread, from its start to its callbacks         *)
(***************************************************************************)
\* the window as _start_download leaves it (lines 512-527) when the formats
\* of the URL in the URL field are listed and one of them is selected
InitThread ==
    /\ url_edit \in {TextA, TextB}
    /\ \E listing \in GuiListings :
          current_formats = get_available_formats("ok", "ok", listing).formats
    /\ formats_of = Strip(url_edit)
    /\ \E i \in 0..(Len(current_formats) - 1) :
          format_combo = [count |-> Len(current_formats), index |-> i]
    /\ enabled = [fetch |-> FALSE, download |-> FALSE, cancel |-> TRUE,
                  combo |-> FALSE]
    /\ is_downloading = TRUE
    /\ progress_bar = 0
    /\ download_thread = 1
    /\ dthreads = [i \in 1..MaxDownloads |->
                      IF i = 1 THEN NewThread ELSE NoThread]
    /\ iworkers = <<>>
    /\ events = <<>>
    /\ DownloadIdle
    /\ FormatsIdle
    /\ TitleIdle

NextThread ==
    \/ ThreadProgress
    \/ ThreadRun
    \/ UpdateProgress
    \/ DownloadFinished
    \/ DownloadError
    \/ CancelDownload
    \/ EditUrl

SpecThread == InitThread /\ [][NextThread]_vars

(***************************************************************************)
(* Claims about get_available_formats                                      *)
(***************************************************************************)
\* the fallback quality tiers named by the design (best, <=1080p, <=720p,
\* <=480p); config.py itself defines none
FallbackTiers == <<"best", "1080p", "720p", "480p">>

\* the first probe failed, or it yielded no mp4 entry with audio and a height
NeedsFallback ==
    \/ fprobe = "fail"
    \/ \A i \in 1..Len(InfoFormats(fprobe, raw)) :
          LET f == InfoFormats(fprobe, raw)[i]
          IN  ~(f.ext = "mp4" /\ f.height # None /\ f.acodec # "none")

\* C1: for an empty or failing raw format list get_available_formats returns
\* the fixed fallback list, of length (number of fallback tiers) + 2, and
\* never raises.
C1_FallbackNeverRaises ==
    (fpc = "returned" /\ NeedsFallback) =>
        /\ ~fresult.raised
        /\ Len(fresult.formats) = Len(FallbackTiers) + 2
        /\ \A i \in 1..Len(fresult.formats) : ~fresult.formats[i].live

\* the distinct resolutions among the mp4 entries of a listing that carry
\* an audio track
DistinctResolutions(listing) ==
    {listing[i].height : i \in {j \in 1..Len(listing) :
        /\ listing[j].ext = "mp4"
        /\ listing[j].acodec \notin {"none", "absent"}
        /\ listing[j].height > 0}}

IsVideo(e) == e.ext = "mp4" /\ e.height > 0
IsAudio(e) == e.ext \in {"mp3", "wav"}

\* C2: a listing with at least 5 distinct resolutions among its mp4 entries
\* with audio yields exactly 7 entries: 5 video entries, strictly descending
\* by resolution (hence no resolution twice), then 2 audio entries.
C2_FiveVideoTwoAudio ==
    (fpc = "returned" /\ fprobe = "ok"
        /\ Cardinality(DistinctResolutions(raw)) >= 5) =>
        /\ ~fresult.raised
        /\ Len(fresult.formats) = 7
        /\ \A i \in 1..5 : IsVideo(fresult.formats[i])
        /\ \A i \in 6..7 : IsAudio(fresult.formats[i])
        /\ \A i \in 1..4 :
              fresult.formats[i].height > fresult.formats[i + 1].height

\* a listing with six distinct resolutions, one of them listed twice or a
\* webm entry among them, has been resolved
C2_Witness ==
    /\ fpc = "returned" /\ fprobe = "ok"
    /\ Cardinality(DistinctResolutions(raw)) >= 6
    /\ Len(raw) > 6
    /\ Len(fresult.formats) = 7

\* C13: when format discovery fails, a second probe is made and its metadata
\* is returned with the fallback list; if it fails too, a placeholder
\* MediaSource is returned; the call does not fail.
C13_SecondProbeOrPlaceholder ==
    (fpc = "returned" /\ fprobe = "fail") =>
        /\ ~fresult.raised
        /\ fprobe2 # "none"
        /\ fprobe2 = "fail" => fresult.info = "placeholder"
        /\ fprobe2 # "fail" => fresult.info = "probed"

\* the entries of the returned list before its last two
VideoPart == SubSeq(fresult.formats, 1, Len(fresult.formats) - 2)

\* C14: every returned list ends with the mp3 entry then the wav entry, both
\* with identifier 'bestaudio/best', and every entry before them is an mp4
\* video entry.
C14_AudioEntriesLast ==
    (fpc = "returned" /\ ~fresult.raised) =>
        LET fs == fresult.formats
            n == Len(fresult.formats)
        IN  /\ n >= 2
            /\ fs[n - 1].ext = "mp3" /\ fs[n - 1].id = "bestaudio/best"
            /\ fs[n].ext = "wav" /\ fs[n].id = "bestaudio/best"
            /\ \A i \in 1..(n - 2) : fs[i].ext = "mp4" /\ fs[i].height > 0

\* a list with at least two video entries was returned
C14_Witness ==
    /\ fpc = "returned" /\ ~fresult.raised
    /\ Len(fresult.formats) >= 4

\* the positions of a listing whose entry passes the filter of lines 97-98
\* and has a resolution
Usable(listing) ==
    {i \in 1..Len(listing) :
        /\ listing[i].ext = "mp4"
        /\ listing[i].height # None
        /\ listing[i].acodec # "none"
        /\ listing[i].height > 0}

UsableHeights(listing) == {listing[i].height : i \in Usable(listing)}

\* the m highest elements of a set of heights
Highest(H, m) == {h \in H : Cardinality({g \in H : g > h}) < m}

\* the first position of the listing with a usable entry of height h
Earliest(listing, h) ==
    CHOOSE i \in Usable(listing) :
        /\ listing[i].height = h
        /\ \A j \in Usable(listing) : listing[j].height = h => i <= j

\* C15: the video entries of a live result cover the min(5, k) highest of
\* the k distinct resolutions that pass the filter, one entry each, and the
\* entry of a resolution carries the format_id of the earliest raw entry of
\* that resolution among those that pass the filter.
C15_HighestFirstSeen ==
    (fpc = "returned" /\ ~fresult.raised) =>
        LET top == Highest(UsableHeights(raw), 5)
        IN  /\ Len(VideoPart) = Cardinality(top)
            /\ {VideoPart[i].height : i \in 1..Len(VideoPart)} = top
            /\ \A i \in 1..Len(VideoPart) :
                  VideoPart[i].id =
                      raw[Earliest(raw, VideoPart[i].height)].format_id

\* six resolutions, and the second-listed entry of one resolution was kept
\* out by the first-listed one
C15_Witness ==
    /\ fpc = "returned" /\ ~fresult.raised
    /\ Cardinality(UsableHeights(raw)) = 6
    /\ \E i, j \in 1..Len(raw) :
          /\ i < j
          /\ raw[i].format_id = "f4b" /\ raw[j].format_id = "f4"
    /\ \E i \in 1..Len(VideoPart) : VideoPart[i].id = "f4b"

\* C19: every video entry of a live result derives from a raw format that is
\* mp4, has a known height and carries audio; no video-only and no non-mp4
\* stream appears.
C19_OnlyMp4WithAudio ==
    (fpc = "returned" /\ ~fresult.raised) =>
        \A i \in 1..Len(VideoPart) :
            \E j \in 1..Len(raw) :
                /\ raw[j].format_id = VideoPart[i].id
                /\ raw[j].height = VideoPart[i].height
                /\ raw[j].ext = "mp4"
                /\ raw[j].height # None
                /\ raw[j].acodec # "none"

\* a listing with a webm entry and a video-only entry gave a live result
C19_Witness ==
    /\ fpc = "returned" /\ ~fresult.raised
    /\ \E i \in 1..Len(raw) : raw[i].ext = "webm"
    /\ \E i \in 1..Len(raw) : raw[i].acodec = "none"
    /\ Len(VideoPart) >= 1

(***************************************************************************)
(* Claims about the title sanitisation                                     *)
(***************************************************************************)
\* the characters the claim says survive
C9Kept(c) ==
    \/ c \in AlnumChars
    \/ c \in {" ", "-", "_", ".", ",", "(", ")", "[", "]", "{", "}"}

\* C9 as stated: sanitising removes exactly the characters that are neither
\* alphanumeric nor one of space - _ . , ( ) [ ] { } and keeps the others in
\* their order.
C9_RemovesExactlyDisallowed ==
    tpc = "done" => safe = SelectSeq(title, C9Kept)

\* C9 amended: the sanitised title is what remains of the title, in order,
\* after removing the disallowed characters and then the leading and
\* trailing spaces of the remainder; "Title: Test!? (HD)" gives
\* "Title Test (HD)".
C9_RemovesDisallowedThenTrims ==
    tpc = "done" =>
        LET kept == SelectSeq(title, C9Kept)
        IN  /\ \E i \in 1..(Len(kept) + 1), j \in 0..Len(kept) :
                  /\ safe = SubSeq(kept, i, j)
                  /\ \A k \in 1..Len(kept) : (k < i \/ k > j) => kept[k] = " "
            /\ safe # <<>> => (safe[1] # " " /\ safe[Len(safe)] # " ")
            /\ title = ExampleTitle => safe = ExampleSafe

\* a title that loses a disallowed character and then an outer space
C9_Witness ==
    /\ tpc = "done"
    /\ safe # <<>>
    /\ Len(SelectSeq(title, C9Kept)) < Len(title)
    /\ Len(safe) < Len(SelectSeq(title, C9Kept))
    /\ title[Len(title)] = " "

(***************************************************************************)
(* Claims about download_multiple                                          *)
(***************************************************************************)
\* C3: download_multiple attempts each URL exactly once, in list order, one
\* attempt ending before the next begins, whatever earlier attempts did, and
\* it returns or raises only after the last URL has been attempted.
C3_SequentialAttempts ==
    call.mode = "batch" =>
        /\ \A k \in 1..Len(log) :
              /\ log[k].i = (k + 1) \div 2
              /\ log[k].i \in 1..Len(call.urls)
              /\ log[k].ev = (IF k % 2 = 1 THEN "begin" ELSE "end")
              /\ log[k].url = call.urls[(k + 1) \div 2]
        /\ batch_result.status # "none" => Len(log) = 2 * Len(call.urls)

\* the first of two different URLs failed, the second succeeded, and the
\* batch raised
C3_Witness ==
    /\ call.mode = "batch" /\ dpc = "done"
    /\ Len(call.urls) = 2 /\ call.urls[1] # call.urls[2]
    /\ log[2].result.status = "raised"
    /\ log[4].result.status = "returned"
    /\ batch_result.status = "raised"

IsFailedEnd(e) == e.ev = "end" /\ e.result.status = "raised"
IsEnd(e) == e.ev = "end"

\* C4: download_multiple raises iff some URL's download failed; the message
\* then has one entry per failed URL, naming URL and reason, and no path is
\* returned; otherwise it returns one path per URL in URL order.
C4_BatchFailsIffSomeFailed ==
    (call.mode = "batch" /\ dpc = "done") =>
        LET failed == SelectSeq(log, IsFailedEnd)
            ends == SelectSeq(log, IsEnd)
        IN  /\ (batch_result.status = "raised") <=> (failed # <<>>)
            /\ batch_result.status \in {"raised", "returned"}
            /\ batch_result.status = "raised" =>
                  /\ batch_result.value = <<>>
                  /\ Len(batch_result.exc) = Len(failed)
                  /\ \A k \in 1..Len(failed) :
                        /\ batch_result.exc[k].url = failed[k].url
                        /\ batch_result.exc[k].reason = failed[k].result.exc
            /\ batch_result.status = "returned" =>
                  /\ Len(batch_result.value) = Len(call.urls)
                  /\ \A k \in 1..Len(call.urls) :
                        /\ ends[k].url = call.urls[k]
                        /\ batch_result.value[k] = ends[k].result.path

\* a batch with one success and exactly one failure has raised
C4_Witness ==
    /\ call.mode = "batch" /\ dpc = "done"
    /\ Len(SelectSeq(log, IsFailedEnd)) = 1
    /\ Len(call.urls) = 2
    /\ batch_result.status = "raised"
    /\ Len(batch_result.exc) = 1

(***************************************************************************)
(* Claims about download_video                                             *)
(***************************************************************************)
AdapterInvoked == opts # NoOpts

TranscodesTo(pp, codec) ==
    /\ Len(pp) = 1
    /\ pp[1].key = "FFmpegExtractAudio"
    /\ pp[1].preferredcodec = codec

\* C5: with target extension mp3 or wav the adapter is invoked with the
\* selector 'bestaudio/best' and a transcode instruction for that codec,
\* whatever format_id was passed; with any other extension the selector is
\* the caller's format_id and there is no post-processing instruction.
C5_AudioSelectorForced ==
    AdapterInvoked =>
        /\ call.ext = Mp3 =>
              /\ opts.format = "bestaudio/best"
              /\ TranscodesTo(opts.postprocessors, Mp3)
        /\ call.ext = Wav =>
              /\ opts.format = "bestaudio/best"
              /\ TranscodesTo(opts.postprocessors, Wav)
        /\ call.ext \notin {Mp3, Wav} =>
              /\ opts.format = call.format_id
              /\ opts.postprocessors = <<>>

\* the adapter is running a wav download whose caller chose format "18"
C5_Witness ==
    /\ dpc = "transfer"
    /\ call.ext = Wav /\ call.format_id = "18"
    /\ opts.format = "bestaudio/best"

\* the adapter returned completion code c to the download_video that has
\* just returned
AdapterReturnedCode(c) ==
    /\ dpc = "returned"
    /\ adapter_ret.called /\ ~adapter_ret.raised /\ adapter_ret.code = c

\* the directory entries whose name starts with the expected base name
Matching == {f \in dir : StartsWith(f, SplitextRoot(cur.filename))}

\* C6: the adapter reports success, the expected output path does not exist
\* and exactly one directory entry starts with the expected base name:
\* download_video returns that entry's path.
C6_ScanRecoversSingleMatch ==
    (AdapterReturnedCode(0) /\ cur.filename \notin dir
        /\ Cardinality(Matching) = 1) =>
        /\ dv_result.status = "returned"
        /\ dv_result.path \in Matching

\* the post-processor's file was returned in place of the expected one
C6_Witness ==
    /\ AdapterReturnedCode(0) /\ cur.filename \notin dir
    /\ Cardinality(Matching) = 1
    /\ dv_result.status = "returned"
    /\ dv_result.path # cur.filename

ArtifactError ==
    /\ dv_result.status = "raised"
    /\ dv_result.exc =
          <<"Erro ao baixar video: ", "Arquivo nao foi criado apos o download">>

\* C7: download_video fails with the 'artifact not produced' error exactly
\* when the adapter returned code 0, the expected output path does not exist
\* and no directory entry starts with the expected base name, and never
\* before the directory has been scanned.
C7_ArtifactMissingIff ==
    dpc = "returned" =>
        /\ ArtifactError <=>
              (AdapterReturnedCode(0) /\ cur.filename \notin dir
                  /\ Matching = {})
        /\ ArtifactError => cur.scanned

\* the error was raised although the directory holds an unrelated entry
C7_Witness ==
    /\ dpc = "returned" /\ ArtifactError
    /\ dir # {} /\ cur.scanned

\* C8: a non-zero completion code makes download_video fail with the
\* 'error downloading video' prefix and return no path, even when the
\* expected file or a file with a matching base name exists.
C8_NonZeroCodeFails ==
    (dpc = "returned" /\ adapter_ret.called /\ ~adapter_ret.raised
        /\ adapter_ret.code # 0) =>
        /\ dv_result.status = "raised"
        /\ dv_result.path = <<>>
        /\ Head(dv_result.exc) = "Erro ao baixar video: "
        /\ SubSeq(dv_result.exc, 2, Len(dv_result.exc)) =
              <<"Erro ao baixar video (codigo ", "1", ")">>

\* the code was non-zero although the expected output file exists
C8_Witness ==
    /\ dpc = "returned" /\ adapter_ret.called /\ ~adapter_ret.raised
    /\ adapter_ret.code # 0
    /\ cur.filename \in dir
    /\ dv_result.status = "raised"

\* C10: with no explicit filename the composed output filename has a
\* non-empty base name before '.<ext>', also for an empty probed title.
C10_BaseNameNonEmpty ==
    (AdapterInvoked /\ call.filename = <<>>) =>
        \E n \in 1..Len(opts.outtmpl) :
            opts.outtmpl = SubSeq(opts.outtmpl, 1, n) \o <<".">> \o call.ext

\* the file names download_video generates when the probe fails:
\* "youtube_video_ab.<ext>" for "y?v=ab", "youtube_video_download.<ext>" for
\* a URL without 'v='
GeneratedName(url, ext) ==
    <<"y", "o", "u", "t", "u", "b", "e", "_", "v", "i", "d", "e", "o", "_">>
        \o (IF url = UrlWithId THEN <<"a", "b">>
            ELSE <<"d", "o", "w", "n", "l", "o", "a", "d">>)
        \o <<".">> \o ext

\* C11: a failure of the title probe does not make download_video fail: the
\* adapter is invoked, with a base name generated from the 'v=' fragment of
\* the URL, or from a placeholder when the URL has none.
C11_ProbeFailureTolerated ==
    cur.probe = "fail" =>
        /\ dpc \in {"transfer", "verify", "returned"}
        /\ AdapterInvoked
        /\ opts.url = cur.url
        /\ call.filename = <<>> =>
              opts.outtmpl = GeneratedName(cur.url, call.ext)
        /\ dv_result.status = "raised" => adapter_ret.called

\* a download whose probe failed, for a URL without 'v=', returned a path
C11_Witness ==
    /\ dpc = "returned"
    /\ cur.probe = "fail" /\ cur.url = UrlWithoutId
    /\ call.filename = <<>>
    /\ dv_result.status = "returned"

\* C12: every adapter invocation of download_video has playlist expansion
\* disabled, for every target extension.
C12_NoPlaylist ==
    AdapterInvoked => (opts.noplaylist /\ ~opts.skip_download)

\* the adapter is running an mp3 download
C12_Witness ==
    /\ dpc = "transfer"
    /\ call.ext = Mp3
    /\ opts.noplaylist

\* how often position i of the URL list occurs in a history of invocations
Count(h, i) == Cardinality({k \in 1..Len(h) : h[k] = i})

\* the adapter's completion code of the latest attempt was non-zero
TransferJustFailed ==
    adapter_ret.called /\ ~adapter_ret.raised /\ adapter_ret.code # 0

\* C18: no retry: the adapter's download is invoked at most once within one
\* download_video call and at most once per URL of download_multiple's list.
C18_NoRetry ==
    /\ \A i \in 1..Len(call.urls) : Count(invoked, i) <= 1
    /\ Range(invoked) \subseteq 1..Len(call.urls)
    /\ call.mode = "single" => Len(invoked) <= 1
    /\ (dpc = "returned" /\ TransferJustFailed) => Count(invoked, idx) = 1

\* the transfer of the first URL of a batch failed and the batch is over
C18_Witness ==
    /\ call.mode = "batch" /\ dpc = "done"
    /\ Len(call.urls) = 2
    /\ log[2].result.status = "raised"
    /\ log[2].result.exc =
          <<"Erro ao baixar video: ", "Erro ao baixar video (codigo ", "1", ")">>
    /\ invoked = <<1, 2>>

(***************************************************************************)
(* Claims about the progress sink                                          *)
(***************************************************************************)
\* C16: the outcome of download_video is the same with and without a
\* progress sink, for the same adapter behaviour and filesystem state; with
\* no sink a progress event is ignored without error.
C16_OutcomeIndependentOfSink ==
    /\ dpc = "returned" => hookst.twin_result = dv_result
    /\ ~sink => (~hookst.raised /\ delivered = <<>>)

\* a download without sink returned a path after the adapter had emitted
\* progress events
C16_Witness ==
    /\ dpc = "returned" /\ ~sink
    /\ Len(emitted) = 2
    /\ dv_result.status = "returned"
    /\ hookst.twin_result.status = "returned"

IsFinishedEvent(d) == d.status = "finished"

\* C17: during one download_video call with a registered sink, the sink gets
\* zero or more 'downloading' events and exactly one terminal 'finished'
\* event before download_video reports completion.
C17_ExactlyOneFinished ==
    (dpc = "returned" /\ sink /\ dv_result.status = "returned") =>
        /\ Len(SelectSeq(delivered, IsFinishedEvent)) = 1
        /\ delivered[Len(delivered)].status = "finished"

\* C20: every event the adapter emits is delivered to the registered sink
\* exactly once, unmodified, in emission order and within the adapter's
\* callback: at no time is an emitted event undelivered.
C20_DeliveredAsEmitted ==
    sink => delivered = emitted

\* two different events have been emitted to a registered sink and the
\* adapter is still transferring
C20_Witness ==
    /\ dpc = "transfer" /\ sink
    /\ Len(emitted) = 2
    /\ emitted[1] # emitted[2]
    /\ emitted[2].status = "finished"

(***************************************************************************)
(* Claims about the artifact returned and the live list                    *)
(***************************************************************************)
\* C21: a successful download_video returns the path of an artifact that the
\* same invocation produced; the directory scan never returns a file that
\* another download left in the destination directory.
C21_ReturnsOwnArtifact ==
    (dpc = "returned" /\ dv_result.status = "returned") =>
        dv_result.path \in adapter_ret.wrote

\* the list is a live one: it is not empty and all its entries were built
\* from the probe
IsLiveList(formats) ==
    /\ formats # <<>>
    /\ \A i \in 1..Len(formats) : formats[i].live

\* C22: a live list returned by get_available_formats contains at least one
\* video entry; a probe whose filter-passing entries contribute no resolution
\* never gives a list of the two audio entries alone.
C22_LiveListHasVideo ==
    (fpc = "returned" /\ ~fresult.raised /\ IsLiveList(fresult.formats)) =>
        \E i \in 1..Len(fresult.formats) : IsVideo(fresult.formats[i])

(***************************************************************************)
(* Claims about the window and its threads                                 *)
(***************************************************************************)
\* C23: after any sequence of user actions and worker callbacks at most one
\* DownloadThread is running: no download is started while an earlier
\* thread has neither finished, failed nor been terminated.
C23_OneDownloadThread ==
    Cardinality({t \in DOMAIN dthreads : IsRunning(dthreads[t])}) <= 1

\* the window runs _download_finished or _download_error in this step
TerminalCallback ==
    /\ events # <<>>
    /\ Head(events).sig \in {"finished_signal", "error_signal"}
    /\ events' = Tail(events)

\* C24: after _cancel_download no completion or error callback of the
\* cancelled download is processed: _download_finished and _download_error
\* never run for a thread that was cancelled.
C24_NoCallbackAfterCancel ==
    [][TerminalCallback => ~dthreads[Head(events).from].cancelled]_vars

TerminalSignals == {"finished_signal", "error_signal"}

\* the terminal signal that belongs to an outcome of download_video
Expected(outcome) ==
    IF outcome.status = "returned"
    THEN [sig |-> "finished_signal", arg |-> outcome.path]
    ELSE [sig |-> "error_signal", arg |-> outcome.exc]

\* the thread ran to completion and its signals are still on record
Completed(t) == t.state = "finished" /\ t.outcome # NoDvResult

\* C25: a DownloadThread that runs to completion emits exactly one terminal
\* signal, finished_signal with the path when download_video returned and
\* error_signal with the message when it raised, and every progress signal
\* it emits precedes that signal, in the thread and in the window's queue.
C25_OneTerminalSignal ==
    \A t \in DOMAIN dthreads :
        Completed(dthreads[t]) =>
            LET sigs == dthreads[t].signals
            IN  /\ sigs # <<>>
                /\ sigs[Len(sigs)] = Expected(dthreads[t].outcome)
                /\ \A k \in 1..(Len(sigs) - 1) :
                       sigs[k].sig = "progress_signal"
                /\ \A i, j \in 1..Len(events) :
                       (/\ i < j
                        /\ events[i].from = t /\ events[j].from = t
                        /\ events[i].sig \in TerminalSignals)
                           => events[j].sig \notin ThreadSignals

\* a thread emitted a progress signal, its download_video raised, and the
\* window has processed neither signal yet
C25_Witness ==
    \E t \in DOMAIN dthreads :
        /\ Completed(dthreads[t])
        /\ dthreads[t].outcome.status = "raised"
        /\ Len(dthreads[t].signals) = 2
        /\ Len(events) = 2
        /\ events[2].sig = "error_signal"

\* _start_download starts a DownloadThread in this step
ThreadStarted ==
    \E t \in DOMAIN dthreads :
        dthreads[t].state = "none" /\ dthreads'[t].state = "running"

\* C26: a download is only started with a format choice resolved for the
\* URL being downloaded: whenever _start_download starts a thread,
\* current_formats is the list the probe of the URL in the URL field gave.
C26_FormatsOfCurrentUrl ==
    [][ThreadStarted => formats_of = Strip(url_edit)]_vars

====
